---- MODULE Spec2Model ----
(***************************************************************************)
(* Agent execution core of the instantly package: the tool registry        *)
(* (instantly/tools.py), the sandbox (instantly/sandbox.py), the event bus *)
(* and keyed agent state (instantly/state.py) and the agent step loop and  *)
(* execute_tool (instantly/agent.py).                                      *)
(*                                                                         *)
(* The agent is modelled with the EventBus and AgentState of state.py,     *)
(* which agent.py imports at line 14 and whose constructor signature       *)
(* AgentState(event_bus=...) the Agent constructor uses at line 137.       *)
(* The classes of the same names that agent.py defines itself (lines 54    *)
(* and 68) are modelled on their own: the bus of a BrowserSession          *)
(* (session), the five recording lists (logs), and the constructor with    *)
(* the names as the module binds them (Construct).                         *)
(* Scheduling is asyncio's: one thread, a coroutine runs without           *)
(* interruption up to its next await that really suspends.                 *)
(***************************************************************************)
EXTENDS Integers, Sequences, FiniteSets, TLC

\* ---------------------------------------------------------------- bounds
MaxHistory == 2      \* events the environment may start while history is shorter
MaxSets == 2         \* state.set calls the environment makes
MaxStateSubs == 1    \* listeners of StateChangeEvent while only the state is exercised
MaxSubs == 2         \* subscriptions held by the bus
MaxRuns == 2         \* direct Sandbox.run invocations
MaxSteps == 3        \* largest max_steps passed to Agent.run
MaxRunCalls == 2     \* Agent.run calls
MaxExecutes == 1     \* ToolRegistry.execute calls that reach the sandbox
MaxToolList == 3     \* longest tools list handed to the Agent constructor
MaxRecords == 3      \* record_* calls on the agent.py AgentState
MaxTasks == 3        \* listener tasks a BrowserSession's bus has created
BelowZero == 2       \* how far below zero the max_steps passed to Agent.run go

\* ---------------------------------------------------------------- values
None == "None"
Vals == {"v1", "v2"}
Keys == {"k1"}
AbsentKey == "k0"    \* a key that is never set or loaded
Names == {"echo", "noop", "boom", "missing"}
ToolObjs == {"echo1", "echo2", "noop1", "boom1"}
AsyncToolObjs == {"aecho1"}   \* a tool whose __call__ is "async def"
EventTypes == {"ToolExecutionEvent", "StateChangeEvent"}
ListenerIds == {"ok", "raiser", "setter"}

DuplicateError == "ValidationError: Tool is already registered"
NotFoundError == "ValidationError: Tool is not registered"
ToolError == "RuntimeError: tool failed"
ListenerError == "RuntimeError: listener failed"
ValueError == "ValueError: list.remove(x): x not in list"

\* ---------------------------------------------------------------- helpers
Last(s) == s[Len(s)]

RemoveAt(s, i) == SubSeq(s, 1, i - 1) \o SubSeq(s, i + 1, Len(s))

Range(s) == {s[i] : i \in DOMAIN s}

EmptyMap == [x \in {} |-> None]

\* dict.update: the entries of m2 written over m1
Update(m1, m2) ==
  [x \in DOMAIN m1 \cup DOMAIN m2 |-> IF x \in DOMAIN m2 THEN m2[x] ELSE m1[x]]

\* ---------------------------------------------------------------- tools
\* _get_metadata().name of each tool object
NameOf(t) ==
  CASE t = "echo1" -> "echo"
    [] t = "echo2" -> "echo"
    [] t = "noop1" -> "noop"
    [] t = "boom1" -> "boom"
    [] t = "aecho1" -> "aecho"

\* what calling an "async def" yields: a coroutine object, its body not started
Coroutine == "coroutine object"

\* tool.__call__(arg): echo returns its argument, noop returns nothing, boom
\* raises, the async echo returns the coroutine object of its body; "body"
\* tells whether the tool's body has run to its end
CallTool(t, arg) ==
  CASE NameOf(t) = "echo" -> [kind |-> "return", value |-> arg, body |-> "done"]
    [] NameOf(t) = "noop" -> [kind |-> "return", value |-> None, body |-> "done"]
    [] NameOf(t) = "boom" -> [kind |-> "raise", value |-> ToolError, body |-> "done"]
    [] NameOf(t) = "aecho" -> [kind |-> "return", value |-> Coroutine,
                               body |-> "not started"]

\* await tool.__call__(arg): the body of the async echo runs and returns arg
AwaitTool(t, arg) ==
  IF CallTool(t, arg).value = Coroutine
  THEN [kind |-> "return", value |-> arg, body |-> "done"]
  ELSE CallTool(t, arg)

\* name in self._tools
Registered(reg, name) == \E i \in DOMAIN reg : reg[i].name = name

\* self._tools[name]
Lookup(reg, name) == reg[CHOOSE i \in DOMAIN reg : reg[i].name = name].tool

RegisterDropsCheck(reg, t) ==
  IF Registered(reg, NameOf(t))
  THEN [raised |-> None,
        reg |-> [i \in DOMAIN reg |->
                   IF reg[i].name = NameOf(t) THEN [name |-> NameOf(t), tool |-> t]
                   ELSE reg[i]]]
  ELSE [raised |-> None, reg |-> Append(reg, [name |-> NameOf(t), tool |-> t])]

\* ToolRegistry.register
RegisterTool(reg, t) ==
  IF Registered(reg, NameOf(t))
  THEN [raised |-> DuplicateError, reg |-> reg]
  ELSE [raised |-> None, reg |-> Append(reg, [name |-> NameOf(t), tool |-> t])]

UnregisterIgnoresMissing(reg, name) ==
  IF ~Registered(reg, name)
  THEN [raised |-> None, reg |-> reg]
  ELSE [raised |-> None,
        reg |-> RemoveAt(reg, CHOOSE i \in DOMAIN reg : reg[i].name = name)]

\* ToolRegistry.unregister
UnregisterTool(reg, name) ==
  IF ~Registered(reg, name)
  THEN [raised |-> NotFoundError, reg |-> reg]
  ELSE [raised |-> None,
        reg |-> RemoveAt(reg, CHOOSE i \in DOMAIN reg : reg[i].name = name)]

\* ToolRegistry.get_tool
GetTool(reg, name) ==
  IF ~Registered(reg, name)
  THEN [raised |-> NotFoundError, value |-> None]
  ELSE [raised |-> None, value |-> Lookup(reg, name)]

\* tool._get_metadata(): a new ToolMetadata value, no reference to the tool
Metadata(t) == [name |-> NameOf(t), version |-> "1.0.0"]

ListToolsReversed(reg) ==
  [i \in DOMAIN reg |-> Metadata(reg[Len(reg) + 1 - i].tool)]

\* ToolRegistry.list_tools: the metadata of self._tools.values(), a dict that
\* iterates in insertion order
ListTools(reg) == [i \in DOMAIN reg |-> Metadata(reg[i].tool)]

\* Agent.tools: {tool.name: tool for tool in self.tool_registry.list_tools()}
AgentTools(reg) ==
  [n \in {ListTools(reg)[i].name : i \in DOMAIN reg} |->
     ListTools(reg)[CHOOSE i \in DOMAIN reg : ListTools(reg)[i].name = n]]

\* ---------------------------------------------------------------- sandbox
\* SandboxContext.__init__; an env_vars of None is passed as the empty map it
\* is replaced by, and the unset _original_env is the (equally falsy) empty map
SandboxContextInit(working_dir, env_vars, curdir) ==
  [working_dir |-> IF working_dir # None THEN working_dir ELSE curdir,
   env_vars |-> env_vars,
   original_dir |-> None,
   original_env |-> EmptyMap]

\* The generator body of SandboxContext.__enter__: snapshot, chdir, environ.update
EnterBody(ctx, p) ==
  [ctx |-> [ctx EXCEPT !.original_dir = p.cwd, !.original_env = p.environ],
   proc |-> [cwd |-> ctx.working_dir, environ |-> Update(p.environ, ctx.env_vars)]]

\* What "with context:" calls: __enter__ is wrapped by @contextmanager, so the
\* call only builds a generator-backed manager and returns it; the generator
\* body is never started.
Enter(ctx, p) == [ctx |-> ctx, proc |-> p]

\* SandboxContext.__exit__: restores only what the snapshot fields hold
\* (None and the empty dict are falsy)
Exit(ctx, p) ==
  [cwd |-> IF ctx.original_dir # None THEN ctx.original_dir ELSE p.cwd,
   environ |-> IF ctx.original_env # EmptyMap
               THEN ctx.original_env ELSE p.environ]

\* the callables handed to Sandbox.run directly: what each does to the process
\* state while it runs
SandboxFuncs == {"read", "chdir", "fail", "aread", "achdir"}

\* asyncio.iscoroutinefunction: true of a function defined with "async def",
\* false of any other object, a tool instance with an async __call__ included
IsCoroutineFunction(f) == f \in {"aread", "achdir"}

FuncEffect(f, p) ==
  IF f \in {"chdir", "achdir"}
  THEN [cwd |-> "/", environ |-> Update(p.environ, [x \in {"B"} |-> "1"])]
  ELSE p

FuncOutcome(f) == IF f = "fail" THEN "raised" ELSE "returned"

\* ---------------------------------------------------------------- events
\* ToolExecutionEvent(tool_name, args, kwargs, result=None, error=None)
ToolExecutionEvent(name, arg, result, error) ==
  [event_type |-> "ToolExecutionEvent", tool_name |-> name, args |-> arg,
   result |-> result, error |-> error]

\* StateChangeEvent(key, old_value, new_value)
StateChangeEvent(key, old, new) ==
  [event_type |-> "StateChangeEvent", key |-> key, old_value |-> old,
   new_value |-> new]

\* dict.get(key) on the keyed map
StateGet(st, key) == IF key \in DOMAIN st THEN st[key] ELSE None

\* the listeners dispatch reads: self._listeners.get(event.event_type, [])
ListenersOfAnyType(ls, type) ==
  IF DOMAIN ls = {} THEN <<>> ELSE ls[CHOOSE t \in DOMAIN ls : TRUE]

ListenersFor(ls, type) == IF type \in DOMAIN ls THEN ls[type] ELSE <<>>

\* ---------------------------------------------------------------- state
VARIABLES
  tools,        \* ToolRegistry._tools: insertion-ordered name -> tool object
  listeners,    \* EventBus._listeners: event type -> list of listeners
  history,      \* EventBus._history
  dispatches,   \* per history entry: the dispatch call that appended it
  state,        \* AgentState._state
  calls,        \* Agent.execute_tool invocations
  sandbox_config, \* Agent.sandbox_config
  cwd,          \* os.getcwd()
  environ,      \* os.environ
  runs,         \* Sandbox.run invocations, direct or through ToolRegistry.execute
  paused,       \* Agent._paused
  loop,         \* the Agent.run call in progress: position, step, hooks
  trace,        \* hook and step-body invocations of the current run call
  ret,          \* outcome of the synchronous call made in this step
  logs,         \* agent.py AgentState: the five append-only lists
  session       \* agent.py EventBus of a BrowserSession: listeners, scheduled tasks

vars == <<tools, listeners, history, dispatches, state, calls, sandbox_config,
          cwd, environ, runs, paused, loop, trace, ret, logs, session>>

\* agent.py AgentState.__init__
LogNames == {"thoughts", "outputs", "actions", "visited_urls", "extracted_content"}

EmptyLogs == [l \in LogNames |-> <<>>]

\* agent.py EventBus.__init__; tasks is the event loop's queue of the tasks
\* dispatch created
EmptySession == [listeners |-> EmptyMap, tasks |-> <<>>, dispatched |-> 0, returned |-> <<>>]

agentModuleVars == <<logs, session>>

NoRet == [op |-> "none", arg |-> None, raised |-> None, value |-> None]

NoOrigin == [op |-> "set", call |-> 0, phase |-> 0, caught |-> None, parent |-> <<0, 0>>]

\* ---------------------------------------------------------------- event bus
\* The bus and everything a dispatch continuation can touch, as one record
Bus == [history |-> history, dispatches |-> dispatches, state |-> state, calls |-> calls]

InsertAtFront(h, event) == <<event>> \o h

\* EventBus.dispatch, line 56: self._history.append(event)
AppendToHistory(h, event) == Append(h, event)

StartDispatchSkipsHistory(B, ls, event, origin) ==
  LET lst == ListenersFor(ls, event.event_type)
      d == [lst |-> lst,
            st |-> [p \in DOMAIN lst |-> "pending"],
            out |-> IF lst = <<>> THEN "returned" ELSE "waiting",
            exc |-> None,
            origin |-> origin,
            resumed |-> FALSE,
            event |-> event]
      n == Len(B.dispatches) + 1
  IN [B EXCEPT !.dispatches = Append(@, d),
               !.calls = IF origin.op = "execute_tool"
                         THEN [@ EXCEPT ![origin.call].events = Append(@, n)]
                         ELSE @]

\* EventBus.dispatch up to "await asyncio.gather(*tasks)": the event is
\* recorded, one coroutine per subscribed listener is created; with no
\* listener dispatch returns without suspending.
StartDispatch(B, ls, event, origin) ==
  LET lst == ListenersFor(ls, event.event_type)
      d == [lst |-> lst,
            st |-> [p \in DOMAIN lst |-> "pending"],
            out |-> IF lst = <<>> THEN "returned" ELSE "waiting",
            exc |-> None,
            origin |-> origin,
            resumed |-> FALSE,
            event |-> event]
      h == AppendToHistory(B.history, event)
      n == Len(B.dispatches) + 1
  IN [B EXCEPT !.history = h,
               !.dispatches = Append(@, d),
               !.calls = IF origin.op = "execute_tool"
                         THEN [@ EXCEPT ![origin.call].events = Append(@, n)]
                         ELSE @]

\* asyncio.gather of dispatch i after listener p finished: the first failure
\* is raised to the awaiting dispatch at once, the result is ready when all
\* listeners are done
ListenerDone(B, i, p, exc) ==
  LET d == B.dispatches[i]
      st2 == [d.st EXCEPT ![p] = IF exc = None THEN "done" ELSE "failed"]
      out2 == IF d.out # "waiting" THEN d.out
              ELSE IF exc # None THEN "raised"
              ELSE IF \A q \in DOMAIN st2 : st2[q] = "done" THEN "returned"
              ELSE "waiting"
  IN [B EXCEPT !.dispatches[i] =
        [d EXCEPT !.st = st2, !.out = out2,
                  !.exc = IF d.out = "waiting" /\ exc # None THEN exc ELSE d.exc]]

SetSkipsMutation(B, ls, key, value, origin) ==
  StartDispatch(B, ls, StateChangeEvent(key, StateGet(B.state, key), value), origin)

SetSnapshotsAfter(B, ls, key, value, origin) ==
  LET B1 == [B EXCEPT !.state = Update(@, [x \in {key} |-> value])]
  IN StartDispatch(B1, ls, StateChangeEvent(key, StateGet(B1.state, key), value), origin)

\* AgentState.set up to the await inside dispatch
SetOp(B, ls, key, value, origin) ==
  LET old_value == StateGet(B.state, key)
      B1 == [B EXCEPT !.state = Update(@, [x \in {key} |-> value])]
  IN StartDispatch(B1, ls, StateChangeEvent(key, old_value, value), origin)

FinishCallDropsValue(B, c, status, value) ==
  [B EXCEPT !.calls[c].status = status, !.calls[c].value = None]

\* Agent.execute_tool, lines 219 and 227: return result / raise
FinishCall(B, c, status, value) ==
  [B EXCEPT !.calls[c].status = status, !.calls[c].value = value]

\* Agent.execute_tool after the dispatch in the except branch (line 221) is over
ResumePhase2(B, j) ==
  LET d == B.dispatches[j]
      B1 == [B EXCEPT !.dispatches[j].resumed = TRUE]
  IN FinishCall(B1, d.origin.call, "raised",
                IF d.out = "raised" THEN d.exc ELSE d.origin.caught)

\* Agent.execute_tool, lines 220-227: the except branch publishes the error
ExceptBranch(B, ls, c, e) ==
  LET call == B.calls[c]
      B1 == StartDispatch(B, ls, ToolExecutionEvent(call.name, call.arg, None, e),
                          [NoOrigin EXCEPT !.op = "execute_tool", !.call = c,
                                           !.phase = 2, !.caught = e])
      j == Len(B1.dispatches)
  IN IF B1.dispatches[j].out = "returned" THEN ResumePhase2(B1, j) ELSE B1

ResumeSwallowsListenerError(B, ls, j) ==
  LET d == B.dispatches[j]
      B1 == [B EXCEPT !.dispatches[j].resumed = TRUE]
  IN FinishCall(B1, d.origin.call, "returned", d.event.result)

\* Agent.execute_tool after the dispatch inside the try block (line 212) is
\* over: a failure of that dispatch is caught by the same except clause
ResumePhase1(B, ls, j) ==
  LET d == B.dispatches[j]
      B1 == [B EXCEPT !.dispatches[j].resumed = TRUE]
  IN IF d.out = "returned"
     THEN FinishCall(B1, d.origin.call, "returned", d.event.result)
     ELSE ExceptBranch(B1, ls, d.origin.call, d.exc)

ResumeSetRollsBack(B, j) ==
  LET d == B.dispatches[j]
      B1 == [B EXCEPT !.dispatches[j].resumed = TRUE,
                      !.state = IF d.out = "raised"
                                THEN Update(@, [x \in {d.event.key} |-> d.event.old_value])
                                ELSE @]
  IN IF d.origin.parent = <<0, 0>> THEN B1
     ELSE ListenerDone(B1, d.origin.parent[1], d.origin.parent[2],
                       IF d.out = "raised" THEN d.exc ELSE None)

\* AgentState.set after its dispatch is over: returns or raises to the caller,
\* which is the environment or a listener awaiting it
ResumeSet(B, j) ==
  LET d == B.dispatches[j]
      B1 == [B EXCEPT !.dispatches[j].resumed = TRUE]
  IN IF d.origin.parent = <<0, 0>> THEN B1
     ELSE ListenerDone(B1, d.origin.parent[1], d.origin.parent[2],
                       IF d.out = "raised" THEN d.exc ELSE None)

\* the continuation of whoever awaits dispatch j
Resume(B, ls, j) ==
  LET o == B.dispatches[j].origin
  IN IF o.op = "set" THEN ResumeSet(B, j)
     ELSE IF o.phase = 1 THEN ResumePhase1(B, ls, j)
     ELSE ResumePhase2(B, j)

\* a dispatch that did not suspend is continued in the same step
Settle(B, ls) ==
  LET j == Len(B.dispatches)
  IN IF B.dispatches[j].out = "returned" /\ ~B.dispatches[j].resumed
     THEN Resume(B, ls, j) ELSE B

\* ---------------------------------------------------------------- registry.execute
\* Sandbox.run for a callable that is not a coroutine function: a tool object
\* is called synchronously between the context's enter and exit
SandboxRunSync(ctx, p, effect, outcome) ==
  LET e == Enter(ctx, p)
      during == e.proc
      after == Exit(e.ctx, effect)
  IN [seen |-> during, proc |-> after, outcome |-> outcome]

MergeConfigReversed(cfg, kwargs) == Update(kwargs, cfg)

\* ToolRegistry.execute, line 85: {**sandbox_config, **kwargs}
MergeConfig(cfg, kwargs) == Update(cfg, kwargs)

\* the keyword parameters of Sandbox.run with their defaults
WorkingDirOf(kw) == IF "working_dir" \in DOMAIN kw THEN kw.working_dir ELSE None

EnvVarsOf(kw) == IF "env_vars" \in DOMAIN kw THEN kw.env_vars ELSE EmptyMap

\* the keyword parameters Sandbox.run declares for itself (sandbox.py 76-78);
\* every other keyword lands in its **kwargs and is passed on to func
SandboxParams == {"working_dir", "env_vars", "resource_limits"}

FuncKwargs(kw) == [k \in DOMAIN kw \ SandboxParams |-> kw[k]]

\* the tools' __call__ take one positional argument and no keywords
TypeError == "TypeError"

\* ToolRegistry.execute: get_tool, then Sandbox.run(tool, *args, **merged);
\* a sandbox_config of None is the empty map it is replaced by
RegistryExecute(reg, name, arg, cfg, kwargs, p) ==
  LET g == GetTool(reg, name)
  IN IF g.raised # None
     THEN [kind |-> "raise", value |-> g.raised, proc |-> p, run |-> <<>>,
           body |-> "not started"]
     ELSE LET merged == MergeConfig(cfg, kwargs)
              ctx == SandboxContextInit(WorkingDirOf(merged), EnvVarsOf(merged), p.cwd)
              fk == FuncKwargs(merged)
              o == IF DOMAIN fk # {}
                   THEN [kind |-> "raise", value |-> TypeError, body |-> "not started"]
                   ELSE IF IsCoroutineFunction(g.value) THEN AwaitTool(g.value, arg)
                   ELSE CallTool(g.value, arg)
              r == SandboxRunSync(ctx, p, Enter(ctx, p).proc, o.kind)
          IN [kind |-> o.kind, value |-> o.value, proc |-> r.proc, body |-> o.body,
              run |-> <<[func |-> g.value, func_args |-> <<arg>>, func_kwargs |-> fk,
                         working_dir |-> WorkingDirOf(merged),
                         env_vars |-> EnvVarsOf(merged), ctx |-> Enter(ctx, p).ctx,
                         before |-> p, seen |-> r.seen, after |-> r.proc,
                         status |-> IF o.kind = "return" THEN "returned" ELSE "raised"]>>]

\* ---------------------------------------------------------------- agent.py namespace
\* The statements of agent.py that bind the names EventBus and AgentState in
\* the module's globals, in execution order: the import at line 14, the class
\* statement at line 54, the class statement at line 68
ModuleStatements ==
  <<[EventBus |-> "state.EventBus", AgentState |-> "state.AgentState"],
    [x \in {"EventBus"} |-> "agent.EventBus"],
    [x \in {"AgentState"} |-> "agent.AgentState"]>>

\* the globals after the first k binding statements
Globals[k \in 0..Len(ModuleStatements)] ==
  IF k = 0 THEN EmptyMap ELSE Update(Globals[k - 1], ModuleStatements[k])

\* what the names resolve to when Agent.__init__ or BrowserSession.__init__
\* runs: the module has been executed to its end
AgentGlobals == Globals[Len(ModuleStatements)]

\* the keyword parameters of each class's __init__ (state.py 73, agent.py 71)
InitKeywords(cls) == IF cls = "state.AgentState" THEN {"event_bus"} ELSE {}

UnexpectedKeyword == "TypeError: __init__() got an unexpected keyword argument 'event_bus'"

\* lines 142-144: for tool in tools: self.tool_registry.register(tool)
RECURSIVE RegisterSeq(_, _)
RegisterSeq(reg, ts) ==
  IF ts = <<>> THEN [raised |-> None, reg |-> reg]
  ELSE LET r == RegisterTool(reg, Head(ts))
       IN IF r.raised # None THEN r ELSE RegisterSeq(r.reg, Tail(ts))

\* Agent.__init__, lines 127-149: the bus and the state are built from the
\* classes the module's globals name at that moment
AgentInit(ts, cfg) ==
  LET bus == [class |-> AgentGlobals.EventBus, id |-> 1]
      stateClass == AgentGlobals.AgentState
      r == RegisterSeq(<<>>, ts)
  IN IF "event_bus" \notin InitKeywords(stateClass)
     THEN [raised |-> UnexpectedKeyword, agent |-> None]
     ELSE IF r.raised # None THEN [raised |-> r.raised, agent |-> None]
     ELSE [raised |-> None,
           agent |-> [event_bus |-> bus,
                      state |-> [class |-> stateClass, event_bus |-> bus],
                      tools |-> r.reg,
                      sandbox_config |-> cfg]]

\* ---------------------------------------------------------------- initial state
IdleLoop == [pc |-> "idle", step |-> 0, max_steps |-> <<>>,
             on_step_start |-> FALSE, on_step_end |-> FALSE,
             pausedSeen |-> FALSE, n |-> 0]

\* Agent(task, tools=[echo1, noop1, boom1], sandbox_config=...): the
\* constructor registers the tools in list order
ConstructorTools == <<"echo1", "noop1", "boom1">>

RegisterAll[i \in 0..Len(ConstructorTools)] ==
  IF i = 0 THEN <<>> ELSE RegisterTool(RegisterAll[i - 1], ConstructorTools[i]).reg

Init ==
  /\ tools = RegisterAll[Len(ConstructorTools)]
  /\ listeners = EmptyMap
  /\ history = <<>>
  /\ dispatches = <<>>
  /\ state = EmptyMap
  /\ calls = <<>>
  /\ sandbox_config = [working_dir |-> "/sbx", env_vars |-> [x \in {"A"} |-> "1"]]
  /\ cwd = "/home"
  /\ environ = [x \in {"A"} |-> "0"]
  /\ runs = <<>>
  /\ paused = FALSE
  /\ loop = IdleLoop
  /\ trace = <<>>
  /\ ret = NoRet
  /\ logs = EmptyLogs
  /\ session = EmptySession

procVars == <<cwd, environ, runs>>
loopVars == <<paused, loop, trace>>
busVars == <<history, dispatches, state, calls>>

SetBus(B) ==
  /\ history' = B.history
  /\ dispatches' = B.dispatches
  /\ state' = B.state
  /\ calls' = B.calls

\* ---------------------------------------------------------------- registry actions
Register(t) ==
  LET r == RegisterTool(tools, t)
  IN /\ tools' = r.reg
     /\ ret' = [op |-> "register", arg |-> t, raised |-> r.raised, value |-> None]
     /\ UNCHANGED <<agentModuleVars, listeners, busVars, sandbox_config, procVars, loopVars>>

Unregister(name) ==
  LET r == UnregisterTool(tools, name)
  IN /\ tools' = r.reg
     /\ ret' = [op |-> "unregister", arg |-> name, raised |-> r.raised, value |-> None]
     /\ UNCHANGED <<agentModuleVars, listeners, busVars, sandbox_config, procVars, loopVars>>

GetToolCall(name) ==
  LET r == GetTool(tools, name)
  IN /\ ret' = [op |-> "get_tool", arg |-> name, raised |-> r.raised, value |-> r.value]
     /\ UNCHANGED <<agentModuleVars, tools, listeners, busVars, sandbox_config, procVars, loopVars>>

ListToolsCall ==
  /\ ret' = [op |-> "list_tools", arg |-> None, raised |-> None,
             value |-> ListTools(tools)]
  /\ UNCHANGED <<agentModuleVars, tools, listeners, busVars, sandbox_config, procVars, loopVars>>

\* ---------------------------------------------------------------- bus actions
\* EventBus.subscribe
SubscribeCall(type, l) ==
  /\ Len(ListenersFor(listeners, "ToolExecutionEvent"))
       + Len(ListenersFor(listeners, "StateChangeEvent")) < MaxSubs
  /\ l = "setter" => type = "ToolExecutionEvent"
  /\ listeners' = Update(listeners, [x \in {type} |-> Append(ListenersFor(listeners, type), l)])
  /\ ret' = NoRet
  /\ UNCHANGED <<agentModuleVars, tools, busVars, sandbox_config, procVars, loopVars>>

UnsubscribeRemovesAll(type, l) ==
  /\ IF type \notin DOMAIN listeners
     THEN /\ listeners' = listeners
          /\ ret' = [op |-> "unsubscribe", arg |-> <<type, l>>, raised |-> None, value |-> None]
     ELSE IF l \in Range(listeners[type])
     THEN /\ listeners' = [listeners EXCEPT ![type] = SelectSeq(@, LAMBDA x : x # l)]
          /\ ret' = [op |-> "unsubscribe", arg |-> <<type, l>>, raised |-> None, value |-> None]
     ELSE /\ listeners' = listeners
          /\ ret' = [op |-> "unsubscribe", arg |-> <<type, l>>, raised |-> ValueError, value |-> None]
  /\ UNCHANGED <<agentModuleVars, tools, busVars, sandbox_config, procVars, loopVars>>

\* EventBus.unsubscribe: list.remove drops the first occurrence and raises
\* ValueError when there is none
UnsubscribeCall(type, l) ==
  /\ IF type \notin DOMAIN listeners
     THEN /\ listeners' = listeners
          /\ ret' = [op |-> "unsubscribe", arg |-> <<type, l>>, raised |-> None, value |-> None]
     ELSE IF l \in Range(listeners[type])
     THEN /\ listeners' = [listeners EXCEPT ![type] =
                 RemoveAt(@, CHOOSE i \in DOMAIN @ :
                                /\ @[i] = l
                                /\ \A k \in 1..(i - 1) : @[k] # l)]
          /\ ret' = [op |-> "unsubscribe", arg |-> <<type, l>>, raised |-> None, value |-> None]
     ELSE /\ listeners' = listeners
          /\ ret' = [op |-> "unsubscribe", arg |-> <<type, l>>, raised |-> ValueError, value |-> None]
  /\ UNCHANGED <<agentModuleVars, tools, busVars, sandbox_config, procVars, loopVars>>

\* a listener coroutine runs: "ok" completes, "raiser" raises, "setter"
\* answers a ToolExecutionEvent with "await state.set(k1, v2)"
ListenerRun(i, p) ==
  /\ i \in DOMAIN dispatches
  /\ p \in DOMAIN dispatches[i].lst
  /\ dispatches[i].st[p] = "pending"
  /\ LET l == dispatches[i].lst[p]
         B == Bus
     IN IF l = "ok" THEN SetBus(ListenerDone(B, i, p, None))
        ELSE IF l = "raiser" THEN SetBus(ListenerDone(B, i, p, ListenerError))
        ELSE IF dispatches[i].event.event_type = "ToolExecutionEvent"
        THEN SetBus(Settle(SetOp([B EXCEPT !.dispatches[i].st[p] = "awaiting"],
                                 listeners, "k1", "v2",
                                 [NoOrigin EXCEPT !.parent = <<i, p>>]),
                           listeners))
        ELSE SetBus(ListenerDone(B, i, p, None))
  /\ ret' = NoRet
  /\ UNCHANGED <<agentModuleVars, tools, listeners, sandbox_config, procVars, loopVars>>

\* the coroutine awaiting dispatch j is woken with gather's result or error
DispatchResume(j) ==
  /\ j \in DOMAIN dispatches
  /\ dispatches[j].out \in {"returned", "raised"}
  /\ ~dispatches[j].resumed
  /\ SetBus(Resume(Bus, listeners, j))
  /\ ret' = NoRet
  /\ UNCHANGED <<agentModuleVars, tools, listeners, sandbox_config, procVars, loopVars>>

\* subscriptions made before the first event
Subscribe(type, l) == history = <<>> /\ SubscribeCall(type, l)

Unsubscribe(type, l) == history = <<>> /\ UnsubscribeCall(type, l)

\* ---------------------------------------------------------------- agent state actions
\* await state.set(key, value), called by the environment
SetCall(key, value) ==
  /\ Len(history) < MaxSets
  /\ SetBus(Settle(SetOp(Bus, listeners, key, value, NoOrigin), listeners))
  /\ ret' = NoRet
  /\ UNCHANGED <<agentModuleVars, tools, listeners, sandbox_config, procVars, loopVars>>

DeleteKeyStrict(st, key) ==
  IF key \in DOMAIN st
  THEN [raised |-> None, state |-> [x \in DOMAIN st \ {key} |-> st[x]]]
  ELSE [raised |-> "KeyError", state |-> st]

\* AgentState.delete, lines 94-95: if key in self._state: del self._state[key]
DeleteKey(st, key) ==
  IF key \in DOMAIN st
  THEN [raised |-> None, state |-> [x \in DOMAIN st \ {key} |-> st[x]]]
  ELSE [raised |-> None, state |-> st]

\* AgentState.delete
Delete(key) ==
  /\ state' = DeleteKey(state, key).state
  /\ ret' = [op |-> "delete", arg |-> key, raised |-> DeleteKey(state, key).raised,
             value |-> None]
  /\ UNCHANGED <<agentModuleVars, tools, listeners, history, dispatches, calls, sandbox_config,
                 procVars, loopVars>>

\* AgentState.load_dict
LoadDict(data) ==
  /\ state' = data
  /\ ret' = NoRet
  /\ UNCHANGED <<agentModuleVars, tools, listeners, history, dispatches, calls, sandbox_config,
                 procVars, loopVars>>

\* ---------------------------------------------------------------- execute_tool
\* Agent.execute_tool up to its first suspension: the registry runs the tool in
\* the sandbox, then the try block or the except block dispatches the event
ExecuteTool(name, arg) ==
  /\ Len(history) < MaxHistory
  /\ name # "echo" => arg = "v1"
  /\ LET r == RegistryExecute(tools, name, arg, sandbox_config, EmptyMap,
                              [cwd |-> cwd, environ |-> environ])
         c == Len(calls) + 1
         call == [name |-> name, arg |-> arg, tool |-> r.kind, status |-> "running",
                  value |-> None, events |-> <<>>, body |-> r.body, invoked |-> 1]
         B == [Bus EXCEPT !.calls = Append(@, call)]
     IN /\ IF r.kind = "return"
           THEN SetBus(Settle(StartDispatch(B, listeners,
                                ToolExecutionEvent(name, arg, r.value, None),
                                [NoOrigin EXCEPT !.op = "execute_tool", !.call = c,
                                                 !.phase = 1]),
                              listeners))
           ELSE SetBus(ExceptBranch(B, listeners, c, r.value))
        /\ cwd' = r.proc.cwd
        /\ environ' = r.proc.environ
  /\ ret' = NoRet
  /\ UNCHANGED <<agentModuleVars, tools, listeners, sandbox_config, runs, loopVars>>

\* ---------------------------------------------------------------- Sandbox.run
Proc == [cwd |-> cwd, environ |-> environ]

\* Sandbox.run(func, working_dir=wd, env_vars=ev) with a plain function: the
\* whole call runs without suspending
SandboxRunCall(f, wd, ev) ==
  /\ Len(runs) < MaxRuns
  /\ ~IsCoroutineFunction(f)
  /\ LET ctx == SandboxContextInit(wd, ev, cwd)
         e == Enter(ctx, Proc)
         r == SandboxRunSync(ctx, Proc, FuncEffect(f, e.proc), FuncOutcome(f))
     IN /\ runs' = Append(runs, [func |-> f, func_args |-> <<>>, func_kwargs |-> EmptyMap,
                                 working_dir |-> wd, env_vars |-> ev,
                                 ctx |-> e.ctx, before |-> Proc, seen |-> r.seen,
                                 after |-> r.proc, status |-> r.outcome])
        /\ cwd' = r.proc.cwd
        /\ environ' = r.proc.environ
  /\ ret' = NoRet
  /\ UNCHANGED <<agentModuleVars, tools, listeners, busVars, sandbox_config, loopVars>>

\* Sandbox.run with a coroutine function, up to the await inside the callable
SandboxRunStart(f, wd, ev) ==
  /\ Len(runs) < MaxRuns
  /\ IsCoroutineFunction(f)
  /\ LET ctx == SandboxContextInit(wd, ev, cwd)
         e == Enter(ctx, Proc)
         p == FuncEffect(f, e.proc)
     IN /\ runs' = Append(runs, [func |-> f, func_args |-> <<>>, func_kwargs |-> EmptyMap,
                                 working_dir |-> wd, env_vars |-> ev,
                                 ctx |-> e.ctx, before |-> Proc, seen |-> e.proc,
                                 after |-> Proc, status |-> "running"])
        /\ cwd' = p.cwd
        /\ environ' = p.environ
  /\ ret' = NoRet
  /\ UNCHANGED <<agentModuleVars, tools, listeners, busVars, sandbox_config, loopVars>>

\* the awaited callable returns, raises or is cancelled: the with block is left
\* through __exit__ on every path
SandboxRunFinish(r, how) ==
  /\ r \in DOMAIN runs
  /\ runs[r].status = "running"
  /\ LET p == Exit(runs[r].ctx, Proc)
     IN /\ runs' = [runs EXCEPT ![r].after = p, ![r].status = how]
        /\ cwd' = p.cwd
        /\ environ' = p.environ
  /\ ret' = NoRet
  /\ UNCHANGED <<agentModuleVars, tools, listeners, busVars, sandbox_config, loopVars>>

\* ---------------------------------------------------------------- ToolRegistry.execute
\* the sandbox_config and per-call keyword arguments callers pass
Configs ==
  {EmptyMap,
   [x \in {"working_dir"} |-> "/sbx"],
   [working_dir |-> "/sbx", env_vars |-> [x \in {"A"} |-> "1"]]}

CallKwargs ==
  {EmptyMap,
   [x \in {"working_dir"} |-> "/call"],
   [x \in {"env_vars"} |-> [y \in {"A"} |-> "2"]],
   [working_dir |-> "/call", env_vars |-> [y \in {"A"} |-> "2"]]}

\* a sandbox_config with resource limits only, as in test_resource_limits,
\* and one with an entry that is no parameter of the sandbox
ForwardConfigs ==
  {EmptyMap,
   [x \in {"resource_limits"} |-> "limits"],
   [x \in {"timeout"} |-> "3"]}

\* keyword arguments meant for the tool
ForwardKwargs ==
  {EmptyMap,
   [x \in {"working_dir"} |-> "/call"],
   [x \in {"verbose"} |-> "yes"]}

\* await registry.execute(name, arg, sandbox_config=cfg, **kwargs), called
\* directly; the tool objects are plain callables, so nothing suspends
ExecuteCall(name, cfg, kwargs) ==
  /\ Len(runs) < MaxExecutes
  /\ LET r == RegistryExecute(tools, name, "v1", cfg, kwargs, Proc)
     IN /\ ret' = [op |-> "execute", arg |-> <<name, cfg, kwargs>>,
                   raised |-> IF r.kind = "raise" THEN r.value ELSE None,
                   value |-> IF r.kind = "return" THEN r.value ELSE None]
        /\ runs' = runs \o r.run
        /\ cwd' = r.proc.cwd
        /\ environ' = r.proc.environ
  /\ UNCHANGED <<agentModuleVars, tools, listeners, busVars, sandbox_config, loopVars>>

\* ---------------------------------------------------------------- Agent()
ToolLists == UNION {[1..n -> ToolObjs] : n \in 0..MaxToolList}

\* agent = Agent(task, tools=ts, sandbox_config=cfg, is_test=True)
Construct(ts, cfg) ==
  LET r == AgentInit(ts, cfg)
  IN /\ ret' = [op |-> "Agent", arg |-> <<ts, cfg>>, raised |-> r.raised,
                value |-> r.agent]
     /\ tools' = IF r.raised = None THEN r.agent.tools ELSE tools
     /\ sandbox_config' = IF r.raised = None THEN cfg ELSE sandbox_config
     /\ UNCHANGED <<agentModuleVars, listeners, busVars, procVars, loopVars>>

\* ---------------------------------------------------------------- Agent.run
\* the statements of one loop iteration, lines 184-195, in order
ReversedOrder == <<"end_hook", "body", "start_hook">>

LoopOrder == <<"start_hook", "body", "end_hook">>

\* the phase after phase ph of an iteration, "incr" after the last
PhaseAfter(ph) ==
  LET i == CHOOSE k \in DOMAIN LoopOrder : LoopOrder[k] = ph
  IN IF i = Len(LoopOrder) THEN "incr" ELSE LoopOrder[i + 1]

\* max_steps: <<>> is Python's None, <<n>> the integer n
Unbounded == <<>>

GuardNegativeIsUnbounded(p, step, max_steps) ==
  ~p /\ (max_steps = Unbounded \/ max_steps[1] < 0 \/ step < max_steps[1])

GuardIgnoresPause(p, step, max_steps) ==
  max_steps = Unbounded \/ step < max_steps[1]

GuardOffByOne(p, step, max_steps) ==
  ~p /\ (max_steps = Unbounded \/ step <= max_steps[1])

\* line 183: while not self._paused and (max_steps is None or step < max_steps)
LoopGuard(p, step, max_steps) ==
  ~p /\ (max_steps = Unbounded \/ step < max_steps[1])

PauseToggles(p) == ~p

\* line 153: self._paused = True
PauseOp(p) == TRUE

\* line 157: self._paused = False
ResumeOp(p) == FALSE

\* Agent.pause; other code runs only while the loop is suspended in a hook
\* or no run call is in progress
Pause ==
  /\ loop.pc \in {"idle", "in_start", "in_end", "returned", "raised"}
  /\ paused' = PauseOp(paused)
  /\ loop' = [loop EXCEPT !.pausedSeen = TRUE]
  /\ ret' = [NoRet EXCEPT !.op = "pause"]
  /\ UNCHANGED <<agentModuleVars, tools, listeners, busVars, sandbox_config, procVars, trace>>

\* Agent.resume
Resume_ ==
  /\ loop.pc \in {"idle", "in_start", "in_end", "returned", "raised"}
  /\ paused' = ResumeOp(paused)
  /\ ret' = [NoRet EXCEPT !.op = "resume"]
  /\ UNCHANGED <<agentModuleVars, tools, listeners, busVars, sandbox_config, procVars, loop, trace>>

\* Agent.run(on_step_start, on_step_end, max_steps), lines 178-182
RunCall(hs, he, max_steps) ==
  /\ loop.pc \in {"idle", "returned", "raised"}
  /\ loop.n < MaxRunCalls
  /\ loop' = [pc |-> "top", step |-> 0, max_steps |-> max_steps,
              on_step_start |-> hs, on_step_end |-> he,
              pausedSeen |-> paused, n |-> loop.n + 1]
  /\ trace' = <<>>
  /\ ret' = NoRet
  /\ UNCHANGED <<agentModuleVars, tools, listeners, busVars, sandbox_config, procVars, paused>>

\* the loop condition; an unbounded run (max_steps = None) is followed for
\* MaxSteps + 1 iterations, after which only its exit is followed
LoopTop ==
  /\ loop.pc = "top"
  /\ (loop.max_steps = Unbounded /\ LoopGuard(paused, loop.step, loop.max_steps))
     => loop.step <= MaxSteps
  /\ loop' = [loop EXCEPT !.pc = IF LoopGuard(paused, loop.step, loop.max_steps)
                                 THEN LoopOrder[1] ELSE "returned"]
  /\ ret' = NoRet
  /\ UNCHANGED <<agentModuleVars, tools, listeners, busVars, sandbox_config, procVars, paused, trace>>

\* lines 185-186: if self._on_step_start: await self._on_step_start(self)
StartHookInvoke ==
  /\ loop.pc = "start_hook"
  /\ IF loop.on_step_start
     THEN /\ trace' = Append(trace, "start")
          /\ loop' = [loop EXCEPT !.pc = "in_start"]
     ELSE /\ trace' = trace
          /\ loop' = [loop EXCEPT !.pc = PhaseAfter("start_hook")]
  /\ ret' = NoRet
  /\ UNCHANGED <<agentModuleVars, tools, listeners, busVars, sandbox_config, procVars, paused>>

StartHookFailureSwallowed(ok) ==
  /\ loop.pc = "in_start"
  /\ trace' = Append(trace, IF ok THEN "start_ret" ELSE "start_raise")
  /\ loop' = [loop EXCEPT !.pc = PhaseAfter("start_hook")]
  /\ ret' = NoRet
  /\ UNCHANGED <<agentModuleVars, tools, listeners, busVars, sandbox_config, procVars, paused>>

\* the awaited hook returns or raises
StartHookDone(ok) ==
  /\ loop.pc = "in_start"
  /\ trace' = Append(trace, IF ok THEN "start_ret" ELSE "start_raise")
  /\ loop' = [loop EXCEPT !.pc = IF ok THEN PhaseAfter("start_hook") ELSE "raised"]
  /\ ret' = NoRet
  /\ UNCHANGED <<agentModuleVars, tools, listeners, busVars, sandbox_config, procVars, paused>>

\* line 189: await self._process_step()
StepBody ==
  /\ loop.pc = "body"
  /\ trace' = Append(trace, "body")
  /\ loop' = [loop EXCEPT !.pc = PhaseAfter("body")]
  /\ ret' = NoRet
  /\ UNCHANGED <<agentModuleVars, tools, listeners, busVars, sandbox_config, procVars, paused>>

\* lines 192-193: if self._on_step_end: await self._on_step_end(self)
EndHookInvoke ==
  /\ loop.pc = "end_hook"
  /\ IF loop.on_step_end
     THEN /\ trace' = Append(trace, "end")
          /\ loop' = [loop EXCEPT !.pc = "in_end"]
     ELSE /\ trace' = trace
          /\ loop' = [loop EXCEPT !.pc = PhaseAfter("end_hook")]
  /\ ret' = NoRet
  /\ UNCHANGED <<agentModuleVars, tools, listeners, busVars, sandbox_config, procVars, paused>>

EndHookDone(ok) ==
  /\ loop.pc = "in_end"
  /\ trace' = Append(trace, IF ok THEN "end_ret" ELSE "end_raise")
  /\ loop' = [loop EXCEPT !.pc = IF ok THEN PhaseAfter("end_hook") ELSE "raised"]
  /\ ret' = NoRet
  /\ UNCHANGED <<agentModuleVars, tools, listeners, busVars, sandbox_config, procVars, paused>>

\* line 195: step += 1
Increment ==
  /\ loop.pc = "incr"
  /\ loop' = [loop EXCEPT !.pc = "top", !.step = @ + 1]
  /\ ret' = NoRet
  /\ UNCHANGED <<agentModuleVars, tools, listeners, busVars, sandbox_config, procVars, paused, trace>>

\* ---------------------------------------------------------------- agent.py AgentState
RecordMethods ==
  {"record_thought", "record_output", "record_action", "record_url", "record_content"}

Items == {"a", "b"}

\* the list each record_* method appends to
RecordPrepends(st, m, item) ==
  LET l == CASE m = "record_thought" -> "thoughts"
             [] m = "record_output"  -> "outputs"
             [] m = "record_action"  -> "actions"
             [] m = "record_url"     -> "visited_urls"
             [] m = "record_content" -> "extracted_content"
  IN [st EXCEPT ![l] = <<item>> \o @]

Record(st, m, item) ==
  LET l == CASE m = "record_thought" -> "thoughts"
             [] m = "record_output"  -> "outputs"
             [] m = "record_action"  -> "actions"
             [] m = "record_url"     -> "visited_urls"
             [] m = "record_content" -> "extracted_content"
  IN [st EXCEPT ![l] = Append(@, item)]

\* Agent.history: the accessor names and the list each lambda returns
HistoryKeys ==
  {"model_thoughts", "model_outputs", "model_actions", "extracted_content", "urls"}

HistoryAccessor(st, k) ==
  CASE k = "model_thoughts"    -> st.thoughts
    [] k = "model_outputs"     -> st.outputs
    [] k = "model_actions"     -> st.actions
    [] k = "extracted_content" -> st.extracted_content
    [] k = "urls"              -> st.visited_urls

RECURSIVE SumLen(_, _)
SumLen(st, ls) ==
  IF ls = {} THEN 0
  ELSE LET l == CHOOSE x \in ls : TRUE IN Len(st[l]) + SumLen(st, ls \ {l})

\* agent.state.record_*(item)
RecordCall(m, item) ==
  /\ SumLen(logs, LogNames) < MaxRecords
  /\ logs' = Record(logs, m, item)
  /\ ret' = [op |-> m, arg |-> item, raised |-> None, value |-> None]
  /\ UNCHANGED <<session, tools, listeners, busVars, sandbox_config, procVars, loopVars>>

\* agent.history[k]()
HistoryCall(k) ==
  /\ ret' = [op |-> "history", arg |-> k, raised |-> None, value |-> HistoryAccessor(logs, k)]
  /\ UNCHANGED <<agentModuleVars, tools, listeners, busVars, sandbox_config, procVars, loopVars>>

\* ---------------------------------------------------------------- agent.py EventBus
\* the classes of the events handed to a BrowserSession's bus; an event object
\* is its class name and its identity
EventClasses == {"TestEvent", "OtherEvent"}

ListenerLists == {<<>>, <<"l1">>, <<"l2">>, <<"l1", "l2">>}

\* dispatch: one task per listener under type(event).__name__, then return the
\* event; the tasks have not run when dispatch returns. session.returned holds
\* the object the latest dispatch call returned.
DispatchAwaitsListeners(bus, event) ==
  LET ls == IF event.class \in DOMAIN bus.listeners THEN bus.listeners[event.class] ELSE <<>>
      new == [p \in DOMAIN ls |->
                [listener |-> ls[p], event |-> event, status |-> "done", received |-> <<event>>]]
  IN [bus |-> [bus EXCEPT !.tasks = @ \o new, !.dispatched = @ + 1],
      value |-> event]

SessionDispatchOp(bus, event) ==
  LET ls == IF event.class \in DOMAIN bus.listeners THEN bus.listeners[event.class] ELSE <<>>
      new == [p \in DOMAIN ls |->
                [listener |-> ls[p], event |-> event, status |-> "scheduled", received |-> <<>>]]
  IN [bus |-> [bus EXCEPT !.tasks = @ \o new, !.dispatched = @ + 1],
      value |-> event]

\* session.event_bus.listeners[cls] = ls
SessionAssign(cls, ls) ==
  /\ session.tasks = <<>>
  /\ session' = [session EXCEPT !.listeners = Update(@, [x \in {cls} |-> ls])]
  /\ ret' = NoRet
  /\ UNCHANGED <<logs, tools, listeners, busVars, sandbox_config, procVars, loopVars>>

\* session.event_bus.dispatch(event), called inside the running event loop
SessionDispatch(cls) ==
  LET event == [class |-> cls, id |-> session.dispatched + 1]
      r == SessionDispatchOp(session, event)
  IN /\ Len(r.bus.tasks) <= MaxTasks
     /\ session.dispatched < MaxTasks
     /\ session' = [r.bus EXCEPT !.returned = <<r.value>>]
     /\ ret' = [op |-> "session.dispatch", arg |-> cls, raised |-> None, value |-> None]
     /\ UNCHANGED <<logs, tools, listeners, busVars, sandbox_config, procVars, loopVars>>

\* the event loop runs the oldest task it has not run yet: listener(event);
\* received holds the event object the listener was called with, once called
TaskRun ==
  \E i \in DOMAIN session.tasks :
    /\ session.tasks[i].status = "scheduled"
    /\ \A k \in 1..(i - 1) : session.tasks[k].status = "done"
    /\ session' = [session EXCEPT !.tasks[i].status = "done",
                                  !.tasks[i].received = <<session.tasks[i].event>>]
    /\ ret' = NoRet
    /\ UNCHANGED <<logs, tools, listeners, busVars, sandbox_config, procVars, loopVars>>

\* ---------------------------------------------------------------- specifications
\* execute_tool calls running concurrently with their listeners
AgentNext ==
  \/ \E ty \in EventTypes, l \in ListenerIds : Subscribe(ty, l)
  \/ \E i \in DOMAIN dispatches : \E p \in DOMAIN dispatches[i].lst : ListenerRun(i, p)
  \/ \E j \in DOMAIN dispatches : DispatchResume(j)
  \/ \E n \in Names, v \in Vals : ExecuteTool(n, v)

Spec == Init /\ [][AgentNext]_vars

\* the keyed state and its change events
StateNext ==
  \/ \E l \in ListenerIds :
        /\ Len(ListenersFor(listeners, "StateChangeEvent")) < MaxStateSubs
        /\ Subscribe("StateChangeEvent", l)
  \/ \E l \in ListenerIds : Unsubscribe("StateChangeEvent", l)
  \/ \E i \in DOMAIN dispatches : \E p \in DOMAIN dispatches[i].lst : ListenerRun(i, p)
  \/ \E j \in DOMAIN dispatches : DispatchResume(j)
  \/ \E k \in Keys, v \in Vals : SetCall(k, v)
  \/ \E k \in Keys \cup {AbsentKey} : Delete(k)
  \/ \E d \in {EmptyMap} \cup {[x \in Keys |-> v] : v \in Vals} : LoadDict(d)

StateSpec == Init /\ [][StateNext]_vars

\* a ToolRegistry on its own, empty after construction
RegistryInit ==
  /\ tools = <<>>
  /\ listeners = EmptyMap
  /\ history = <<>>
  /\ dispatches = <<>>
  /\ state = EmptyMap
  /\ calls = <<>>
  /\ sandbox_config = [working_dir |-> None, env_vars |-> EmptyMap]
  /\ cwd = "/home"
  /\ environ = [x \in {"A"} |-> "0"]
  /\ runs = <<>>
  /\ paused = FALSE
  /\ loop = IdleLoop
  /\ trace = <<>>
  /\ ret = NoRet
  /\ logs = EmptyLogs
  /\ session = EmptySession

RegistryNext ==
  \/ \E t \in ToolObjs : Register(t)
  \/ \E n \in Names : Unregister(n)
  \/ \E n \in Names : GetToolCall(n)
  \/ ListToolsCall
  \/ \E n \in Names, cfg \in Configs, kw \in CallKwargs : ExecuteCall(n, cfg, kw)

RegistrySpec == RegistryInit /\ [][RegistryNext]_vars

\* an agent with a synchronous and an asynchronous tool registered
AsyncTools == <<"echo1", "aecho1">>

AsyncInit ==
  /\ tools = RegisterSeq(<<>>, AsyncTools).reg
  /\ listeners = EmptyMap
  /\ history = <<>>
  /\ dispatches = <<>>
  /\ state = EmptyMap
  /\ calls = <<>>
  /\ sandbox_config = EmptyMap
  /\ cwd = "/home"
  /\ environ = [x \in {"A"} |-> "0"]
  /\ runs = <<>>
  /\ paused = FALSE
  /\ loop = IdleLoop
  /\ trace = <<>>
  /\ ret = NoRet
  /\ logs = EmptyLogs
  /\ session = EmptySession

AsyncNext ==
  \/ \E l \in {"ok", "raiser"} : Subscribe("ToolExecutionEvent", l)
  \/ \E i \in DOMAIN dispatches : \E p \in DOMAIN dispatches[i].lst : ListenerRun(i, p)
  \/ \E j \in DOMAIN dispatches : DispatchResume(j)
  \/ \E n \in {"echo", "aecho"}, v \in Vals : ExecuteTool(n, v)

AsyncSpec == AsyncInit /\ [][AsyncNext]_vars

\* constructing agents from the package as shipped
ConstructNext == \E ts \in ToolLists, cfg \in Configs : Construct(ts, cfg)

ConstructSpec == RegistryInit /\ [][ConstructNext]_vars

\* the working_dir arguments of the direct Sandbox.run calls
WorkingDirs == {None, "/sbx", "/sbx2"}

\* Sandbox.run called directly, also overlapping
SandboxNext ==
  \/ \E f \in SandboxFuncs, wd \in WorkingDirs,
        ev \in {EmptyMap, [x \in {"A"} |-> "1"]} : SandboxRunCall(f, wd, ev)
  \/ \E f \in SandboxFuncs, wd \in WorkingDirs,
        ev \in {EmptyMap, [x \in {"A"} |-> "1"]} : SandboxRunStart(f, wd, ev)
  \/ \E r \in DOMAIN runs, how \in {"returned", "raised", "cancelled"} :
        SandboxRunFinish(r, how)

SandboxSpec == Init /\ [][SandboxNext]_vars

\* the step loop with pause and resume
LoopNext ==
  \/ Pause
  \/ Resume_
  \/ \E hs \in BOOLEAN, he \in BOOLEAN, m \in {Unbounded} \cup {<<n>> : n \in 0..MaxSteps} :
        RunCall(hs, he, m)
  \/ LoopTop
  \/ StartHookInvoke
  \/ \E ok \in BOOLEAN : StartHookDone(ok)
  \/ StepBody
  \/ EndHookInvoke
  \/ \E ok \in BOOLEAN : EndHookDone(ok)
  \/ Increment

LoopSpec == Init /\ [][LoopNext]_vars

\* run calls with a ceiling of zero or less, next to one that does a step
CeilingNext ==
  \/ Pause
  \/ Resume_
  \/ \E hs \in BOOLEAN, he \in BOOLEAN, n \in (0 - BelowZero)..1 : RunCall(hs, he, <<n>>)
  \/ LoopTop
  \/ StartHookInvoke
  \/ \E ok \in BOOLEAN : StartHookDone(ok)
  \/ StepBody
  \/ EndHookInvoke
  \/ \E ok \in BOOLEAN : EndHookDone(ok)
  \/ Increment

CeilingSpec == Init /\ [][CeilingNext]_vars

\* the statements of the running Agent.run coroutine
LoopStep ==
  \/ LoopTop
  \/ StartHookInvoke
  \/ \E ok \in BOOLEAN : StartHookDone(ok)
  \/ StepBody
  \/ EndHookInvoke
  \/ \E ok \in BOOLEAN : EndHookDone(ok)
  \/ Increment

\* the event loop keeps running the run coroutine, and awaited hooks finish
LoopFairSpec == LoopSpec /\ WF_vars(LoopStep)

\* what reaches the tool of the arguments given to ToolRegistry.execute
ForwardNext ==
  \/ \E t \in ToolObjs : Register(t)
  \/ \E n \in Names, cfg \in ForwardConfigs, kw \in ForwardKwargs : ExecuteCall(n, cfg, kw)

ForwardSpec == RegistryInit /\ [][ForwardNext]_vars

\* subscriptions under both event types changing between dispatches
BusNext ==
  \/ \E ty \in EventTypes : SubscribeCall(ty, "ok")
  \/ \E ty \in EventTypes, l \in {"ok", "raiser"} : UnsubscribeCall(ty, l)
  \/ \E i \in DOMAIN dispatches : \E p \in DOMAIN dispatches[i].lst : ListenerRun(i, p)
  \/ \E j \in DOMAIN dispatches : DispatchResume(j)
  \/ SetCall("k1", "v1")

BusSpec == Init /\ [][BusNext]_vars

\* the bus of a BrowserSession inside a running event loop
SessionNext ==
  \/ \E cls \in EventClasses, ls \in ListenerLists : SessionAssign(cls, ls)
  \/ \E cls \in EventClasses : SessionDispatch(cls)
  \/ TaskRun

SessionSpec == Init /\ [][SessionNext]_vars

\* the event loop keeps running the tasks it holds
SessionFairSpec == SessionSpec /\ WF_session(TaskRun)

\* the recording methods of an agent's state and the history accessors
RecordNext ==
  \/ \E m \in RecordMethods : \E item \in Items : RecordCall(m, item)
  \/ \E k \in HistoryKeys : HistoryCall(k)

RecordSpec == Init /\ [][RecordNext]_vars

\* ---------------------------------------------------------------- properties
IsToolEvent(i) == history[i].event_type = "ToolExecutionEvent"

\* the ToolExecutionEvents in history that execute_tool call c published
EventsOfCall(c) ==
  {i \in DOMAIN history :
     /\ i \in DOMAIN dispatches
     /\ IsToolEvent(i)
     /\ dispatches[i].origin.op = "execute_tool"
     /\ dispatches[i].origin.call = c}

\* C1: every execute_tool call, whatever its tool and the listeners do, has
\* exactly one ToolExecutionEvent in the bus history.
C1_ExactlyOneEventPerCall ==
  \A c \in DOMAIN calls : Cardinality(EventsOfCall(c)) = 1

\* C2: every ToolExecutionEvent in history is terminal: exactly one of result
\* and error is set, also for a tool that returns no value.
C2_EveryToolEventTerminal ==
  \A i \in DOMAIN history :
    IsToolEvent(i) => ((history[i].result # None) # (history[i].error # None))

\* C3: when Sandbox.run has returned, raised or been cancelled, the working
\* directory and the whole environment equal what they were just before the call.
C3_RestoredAfterRun ==
  \A r \in DOMAIN runs :
    runs[r].status # "running" => runs[r].after = runs[r].before

\* C4: while the callable runs under Sandbox.run(working_dir=D, env_vars=E) the
\* working directory is D (the previous one when D is not given) and the
\* environment is the previous one with E merged over it.
C4_AppliedDuringRun ==
  \A r \in DOMAIN runs :
    /\ runs[r].seen.cwd = IF runs[r].working_dir # None THEN runs[r].working_dir
                          ELSE runs[r].before.cwd
    /\ runs[r].seen.environ = Update(runs[r].before.environ, runs[r].env_vars)

\* C5: registering a tool whose name is already registered fails with the
\* duplicate-name error and leaves the registry unchanged, so get_tool of that
\* name still returns the first-registered tool object.
C5_DuplicateRegisterFails ==
  [][\A t \in ToolObjs :
       (ret'.op = "register" /\ ret'.arg = t /\ Registered(tools, NameOf(t)))
       => /\ ret'.raised = DuplicateError
          /\ tools' = tools
          /\ GetTool(tools', NameOf(t)).value = Lookup(tools, NameOf(t))]_vars

C5_Witness ==
  /\ ret.op = "register"
  /\ ret.arg = "echo2"
  /\ ret.raised = DuplicateError
  /\ GetTool(tools, "echo").value = "echo1"

\* C6: get_tool and unregister of a name that is not registered fail with the
\* not-registered error, which differs from the duplicate-registration error,
\* and leave the registry unchanged.
C6_UnknownNameFails ==
  [][(ret'.op \in {"get_tool", "unregister"} /\ ~Registered(tools, ret'.arg))
     => /\ ret'.raised = NotFoundError
        /\ ret'.raised # DuplicateError
        /\ tools' = tools]_vars

C6_Witness ==
  /\ ret.op = "unregister"
  /\ ret.arg = "noop"
  /\ ret.raised = NotFoundError
  /\ Registered(tools, "echo")
  /\ ~Registered(tools, "noop")

\* C7: the history lists the events in the order in which dispatch was called,
\* whatever the order in which listeners finish, with dispatches made by a
\* listener and by concurrent execute_tool calls included.
C7_HistoryInDispatchOrder ==
  /\ Len(history) = Len(dispatches)
  /\ \A i \in DOMAIN dispatches : history[i] = dispatches[i].event

C7_Witness ==
  /\ Len(history) >= 3
  /\ \E i, j, k \in DOMAIN dispatches :
       /\ i < j
       /\ dispatches[i].out = "waiting"
       /\ dispatches[j].out = "returned"
       /\ dispatches[i].origin.call # dispatches[j].origin.call
       /\ dispatches[i].origin.op = "execute_tool"
       /\ dispatches[j].origin.op = "execute_tool"
       /\ dispatches[k].origin.parent # <<0, 0>>

\* C8: the StateChangeEvent of set(key, v) carries as old_value the value the
\* key held just before the mutation, None when the key was absent, and v as
\* new_value.
C8_OldValueIsPriorValue ==
  [][\A i \in DOMAIN history' :
       (i > Len(history) /\ history'[i].event_type = "StateChangeEvent")
       => /\ history'[i].old_value = StateGet(state, history'[i].key)
          /\ history'[i].new_value = StateGet(state', history'[i].key)]_vars

C8_Witness ==
  /\ Len(history) = 2
  /\ history[1] = StateChangeEvent("k1", "v2", "v1")
  /\ history[2] = StateChangeEvent("k1", None, "v2")

Count(tr, x) == Cardinality({i \in DOMAIN tr : tr[i] = x})

InIteration == loop.pc \in {"start_hook", "in_start", "body", "end_hook", "in_end", "incr"}

\* C9: a run(max_steps=N) never starts more than N steps, and when it returns
\* on an agent that was not paused it has invoked each given hook and the step
\* body exactly N times.
C9_StepCeiling ==
  loop.max_steps # Unbounded =>
    LET N == loop.max_steps[1]
    IN /\ Count(trace, "start") <= N
       /\ Count(trace, "body") <= N
       /\ Count(trace, "end") <= N
       /\ InIteration => loop.step < N
       /\ (loop.pc = "returned" /\ ~loop.pausedSeen)
          => /\ loop.step = N
             /\ Count(trace, "body") = N
             /\ loop.on_step_start => Count(trace, "start") = N
             /\ loop.on_step_end => Count(trace, "end") = N

C9_Witness ==
  /\ loop.pc = "returned"
  /\ ~loop.pausedSeen
  /\ loop.max_steps = <<3>>
  /\ loop.on_step_start
  /\ loop.on_step_end
  /\ Count(trace, "start") = 3
  /\ Count(trace, "body") = 3
  /\ Count(trace, "end") = 3

\* what may stand at each position of one iteration's trace
Slot(k) ==
  CASE k = 1 -> {"start"}
    [] k = 2 -> {"start_ret", "start_raise"}
    [] k = 3 -> {"body"}
    [] k = 4 -> {"end"}
    [] k = 5 -> {"end_ret", "end_raise"}

IsInvocation(x) == x \in {"start", "end"}

\* C10: with both hooks given, a run invokes on_step_start, then the step body,
\* then on_step_end, each hook returning before the next phase begins and the
\* on_step_end of a step returning before the next on_step_start; a finished
\* run(max_steps=3) has the hook trace start,end,start,end,start,end.
C10_HooksAlternate ==
  (loop.on_step_start /\ loop.on_step_end) =>
    /\ \A i \in DOMAIN trace :
         /\ trace[i] \in Slot(((i - 1) % 5) + 1)
         /\ trace[i] \in {"start_raise", "end_raise"} => i = Len(trace)
    /\ (loop.pc = "returned" /\ ~loop.pausedSeen /\ loop.max_steps = <<3>>)
       => SelectSeq(trace, IsInvocation) = <<"start", "end", "start", "end", "start", "end">>

C10_Witness ==
  /\ loop.pc = "returned"
  /\ loop.max_steps = <<3>>
  /\ SelectSeq(trace, IsInvocation) = <<"start", "end", "start", "end", "start", "end">>
  /\ trace[5] = "end_ret"
  /\ trace[6] = "start"

\* the dispatch that published the first event of execute_tool call c
FirstDispatch(c) == dispatches[calls[c].events[1]]

ToolFailure(c) ==
  RegistryExecute(tools, calls[c].name, calls[c].arg, sandbox_config, EmptyMap,
                  [cwd |-> cwd, environ |-> environ]).value

\* C12: when the tool invocation, name resolution included, fails with error
\* e, execute_tool has appended a ToolExecutionEvent carrying e before it
\* raises, and what it raises to its caller is that same e.
C12_ToolErrorPublishedAndRaised ==
  \A c \in DOMAIN calls :
    calls[c].tool = "raise" =>
      /\ history[calls[c].events[1]] =
           ToolExecutionEvent(calls[c].name, calls[c].arg, None, ToolFailure(c))
      /\ calls[c].status # "running"
         => /\ calls[c].status = "raised"
            /\ calls[c].value = ToolFailure(c)

\* C13: no dispatched event is dropped: when a listener of a dispatch is run
\* the event is already in the history, it stays there when the listener
\* raises, and no step removes or rewrites a history entry.
C13_EventRecordedBeforeListeners ==
  [][/\ \A i \in DOMAIN dispatches : \A p \in DOMAIN dispatches[i].lst :
          (dispatches[i].st[p] = "pending" /\ dispatches'[i].st[p] # "pending")
          => /\ i \in DOMAIN history
             /\ history[i] = dispatches[i].event
             /\ i \in DOMAIN history'
             /\ history'[i] = dispatches[i].event
     /\ \A i \in DOMAIN history :
          /\ i \in DOMAIN history'
          /\ history'[i] = history[i]]_vars

C13_Witness ==
  \E i \in DOMAIN dispatches :
    /\ dispatches[i].lst = <<"raiser", "ok">>
    /\ dispatches[i].st = <<"failed", "done">>
    /\ history[i] = dispatches[i].event

\* C14: dispatch returns or raises to its caller only after every listener
\* subscribed for the event's type has completed or failed, so a listener
\* failure reaches the caller only when all the other listeners have run.
C14_DispatchWaitsForAllListeners ==
  \A j \in DOMAIN dispatches :
    dispatches[j].resumed =>
      \A p \in DOMAIN dispatches[j].st : dispatches[j].st[p] \in {"done", "failed"}

\* C15: pause is cooperative: a run returns only from the loop-top check, never
\* from inside a step, so a step during which pause() was called still runs
\* its body and its on_step_end hook; and on_step_start is invoked only when
\* the agent is not paused at the loop-top check just before it.
C15_PauseIsCooperative ==
  [][/\ trace' = Append(trace, "start") => ~paused
     /\ (loop'.pc = "returned" /\ loop.pc # "returned")
        => /\ loop.pc = "top"
           /\ Count(trace', "body") = loop'.step
           /\ loop.on_step_start
              => Count(trace', "start_ret") = loop'.step
           /\ loop.on_step_end
              => /\ Count(trace', "end") = loop'.step
                 /\ Count(trace', "end_ret") = loop'.step]_vars

C15_Witness ==
  /\ paused
  /\ loop.pc = "returned"
  /\ loop.max_steps = <<3>>
  /\ loop.step = 1
  /\ trace = <<"start", "start_ret", "body", "end", "end_ret">>

Running == loop.pc \notin {"idle", "returned", "raised"}

\* the step counter has reached max_steps
CeilingReached == loop.max_steps # Unbounded /\ loop.step >= loop.max_steps[1]

\* how a step of the model may end the run
ReturnsOnlyAtLoopTop ==
  /\ (loop'.pc = "returned" /\ loop.pc # "returned")
     => /\ loop.pc = "top"
        /\ paused \/ (loop.max_steps # Unbounded /\ loop.step = loop.max_steps[1])
  /\ (loop.pc = "top" /\ loop'.pc # "top" /\ (paused \/ CeilingReached))
     => loop'.pc = "returned"

\* C16: run returns exactly at a loop-top check that sees the paused flag set
\* or the step counter at max_steps, so a run with max_steps=None that is
\* never paused does not return; and when hooks and step body terminate, a
\* run on a paused agent eventually ends unless resume() undoes the pause.
C16_RunTermination ==
  /\ [][ReturnsOnlyAtLoopTop]_vars
  /\ (paused /\ Running) ~> (~Running \/ ~paused)

C16_Witness ==
  /\ paused
  /\ loop.pc = "returned"
  /\ loop.max_steps = Unbounded
  /\ loop.step = 2
  /\ Count(trace, "body") = 2

\* C17: delete(key) raises no error and appends nothing to the event history;
\* on a key that is not present it leaves the keyed map unchanged, and after
\* it get(key) returns the default None.
C17_DeleteOfMissingKeyIsNoOp ==
  [][ret'.op = "delete"
     => /\ ret'.raised = None
        /\ history' = history
        /\ dispatches' = dispatches
        /\ StateGet(state', ret'.arg) = None
        /\ ret'.arg \notin DOMAIN state => state' = state]_vars

C17_Witness ==
  /\ ret.op = "delete"
  /\ ret.arg = AbsentKey
  /\ ret.raised = None
  /\ state = [x \in {"k1"} |-> "v1"]
  /\ history = <<StateChangeEvent("k1", None, "v1")>>

\* C18: ToolRegistry.execute hands Sandbox.run the sandbox_config merged with
\* the per-call keyword arguments: a key present in both takes the per-call
\* value, a key present in one of them takes that one's value.
C18_PerCallKwargsWin ==
  [][(ret'.op = "execute" /\ Len(runs') > Len(runs))
     => LET cfg == ret'.arg[2]
            kw == ret'.arg[3]
            r == Last(runs')
        IN /\ r.working_dir =
                IF "working_dir" \in DOMAIN kw THEN kw.working_dir
                ELSE IF "working_dir" \in DOMAIN cfg THEN cfg.working_dir
                ELSE None
           /\ r.env_vars =
                IF "env_vars" \in DOMAIN kw THEN kw.env_vars
                ELSE IF "env_vars" \in DOMAIN cfg THEN cfg.env_vars
                ELSE EmptyMap
           /\ "working_dir" \in DOMAIN kw => r.ctx.working_dir = kw.working_dir
           /\ "env_vars" \in DOMAIN kw => r.ctx.env_vars = kw.env_vars]_vars

C18_Witness ==
  /\ ret.op = "execute"
  /\ ret.raised = None
  /\ ret.arg[2] = [working_dir |-> "/sbx", env_vars |-> [x \in {"A"} |-> "1"]]
  /\ ret.arg[3] = [x \in {"working_dir"} |-> "/call"]
  /\ Len(runs) = 1
  /\ runs[1].ctx.working_dir = "/call"
  /\ runs[1].ctx.env_vars = [x \in {"A"} |-> "1"]

\* the metadata list without the entry of the given name
WithoutName(ms, name) == SelectSeq(ms, LAMBDA m : m.name # name)

\* C19: list_tools() returns the metadata of exactly the registered tools in
\* registration order: a successful register appends the tool's metadata, a
\* successful unregister removes that name's entry and keeps the order of the
\* rest, nothing else changes the listing; Agent.tools has exactly the
\* registered names as keys.
C19_ListToolsInRegistrationOrder ==
  [][/\ (ret'.op = "register" /\ ret'.raised = None)
        => ListTools(tools') = Append(ListTools(tools), Metadata(ret'.arg))
     /\ (ret'.op = "unregister" /\ ret'.raised = None)
        => ListTools(tools') = WithoutName(ListTools(tools), ret'.arg)
     /\ (ret'.op \notin {"register", "unregister"} \/ ret'.raised # None)
        => ListTools(tools') = ListTools(tools)
     /\ ret'.op = "list_tools"
        => /\ ret'.value = ListTools(tools')
           /\ Len(ret'.value) = Len(tools')
           /\ \A i \in DOMAIN tools' : ret'.value[i].name = tools'[i].name
     /\ DOMAIN AgentTools(tools') = {n \in Names : Registered(tools', n)}]_vars

C19_Witness ==
  /\ ret.op = "list_tools"
  /\ ret.value = <<Metadata("noop1"), Metadata("boom1"), Metadata("echo2")>>
  /\ DOMAIN AgentTools(tools) = {"noop", "boom", "echo"}

\* the keyed map obtained by applying the first i history entries in order
Replay[i \in 0..Len(history)] ==
  IF i = 0 THEN EmptyMap
  ELSE IF history[i].event_type = "StateChangeEvent"
  THEN Update(Replay[i - 1], [x \in {history[i].key} |-> history[i].new_value])
  ELSE Replay[i - 1]

\* C20: every change of the keyed map (set, delete of a present key,
\* load_dict) emits a StateChangeEvent, so the keyed map always equals the
\* replay of the StateChangeEvents in the bus history.
C20_MapEqualsReplay == state = Replay[Len(history)]

\* C21: a constructed Agent owns one event bus that its state shares
\* (agent.state.event_bus is agent.event_bus), the bus of state.py that keeps
\* one history for StateChangeEvents and ToolExecutionEvents.
C21_OneSharedBus ==
  ret.op = "Agent" =>
    /\ ret.raised = None
    /\ ret.value.state.event_bus = ret.value.event_bus
    /\ ret.value.event_bus.class = "state.EventBus"

\* C22: the ToolExecutionEvent of an execute_tool call is published only after
\* the tool's execution for that call has finished, for synchronous and
\* asynchronous tools alike: an event carrying a result is in history only
\* when the tool body of its call has completed.
C22_EventAfterToolFinished ==
  \A c \in DOMAIN calls : \A i \in EventsOfCall(c) :
    history[i].result # None => calls[c].body = "done"

\* C23: Sandbox.run returns the final result of the callable, also for a
\* registered tool object whose call operation is asynchronous: what
\* execute_tool receives from it and publishes is the value the tool body
\* returns, never a still-pending coroutine.
C23_RunReturnsFinalResult ==
  \A c \in DOMAIN calls :
    (calls[c].tool = "return" /\ calls[c].name \in {"echo", "aecho"})
    => /\ FirstDispatch(c).event.result # Coroutine
       /\ FirstDispatch(c).event.result = calls[c].arg

\* callables that leave the working directory and the environment alone
ReadOnly(f) == \A wd \in WorkingDirs :
  FuncEffect(f, [cwd |-> wd, environ |-> EmptyMap]) = [cwd |-> wd, environ |-> EmptyMap]

IsStateEvent(e) == e.event_type = "StateChangeEvent"

\* a listener of dispatch i is run in this step
ListenerRuns(i) ==
  \E p \in DOMAIN dispatches[i].st :
    dispatches[i].st[p] = "pending" /\ dispatches'[i].st[p] # "pending"

\* the set call awaiting dispatch j returns normally in this step
SetReturns(j) ==
  /\ dispatches[j].origin.op = "set"
  /\ ~dispatches[j].resumed
  /\ dispatches'[j].resumed
  /\ dispatches[j].out = "returned"

LogOf ==
  [record_thought |-> "thoughts", record_output |-> "outputs",
   record_action |-> "actions", record_url |-> "visited_urls",
   record_content |-> "extracted_content"]

LogRead ==
  [model_thoughts |-> "thoughts", model_outputs |-> "outputs",
   model_actions |-> "actions", urls |-> "visited_urls",
   extracted_content |-> "extracted_content"]

\* C26: a record_* call appends its item at the end of exactly its own log and
\* leaves the other four logs, the keyed map and the event history unchanged
\* (no event is emitted); a history accessor returns its log's items in the
\* order recorded.
C26_RecordAppendsToOwnLog ==
  [][/\ ret'.op \in RecordMethods
        => /\ logs'[LogOf[ret'.op]] = Append(logs[LogOf[ret'.op]], ret'.arg)
           /\ \A l \in LogNames \ {LogOf[ret'.op]} : logs'[l] = logs[l]
           /\ state' = state
           /\ history' = history
           /\ dispatches' = dispatches
     /\ ret'.op = "history"
        => /\ ret'.value = logs[LogRead[ret'.arg]]
           /\ logs' = logs]_vars

C26_Witness ==
  /\ logs.visited_urls = <<"a", "b">>
  /\ logs.extracted_content = <<"b">>
  /\ ret.op = "history"
  /\ ret.arg = "urls"
  /\ ret.value = <<"a", "b">>

\* the subscriptions held under an event type, in subscription order
SubscribedUnder(ls, t) == IF t \in DOMAIN ls THEN ls[t] ELSE <<>>

\* C27 as claimed: dispatch(event) invokes exactly the listeners currently
\* subscribed under event.event_type, and a listener removed with unsubscribe
\* is not invoked by a later dispatch (here: the dispatch that directly
\* follows the successful unsubscribe call, so nothing was subscribed again).
C27_RemovedListenerNotInvoked ==
  [][\A i \in DOMAIN dispatches' :
       i > Len(dispatches)
       => /\ dispatches'[i].lst
               = SubscribedUnder(listeners, dispatches'[i].event.event_type)
          /\ (/\ ret.op = "unsubscribe"
              /\ ret.raised = None
              /\ ret.arg[1] = dispatches'[i].event.event_type)
             => ret.arg[2] \notin Range(dispatches'[i].lst)]_vars

\* C27 amended: dispatch(event) invokes exactly the listeners currently
\* subscribed under event.event_type, once per subscription, and no listener
\* subscribed only under another event type; unsubscribe removes one
\* subscription of the listener, and a listener with no subscription left
\* under the type is not invoked by any later dispatch.
C27_DispatchInvokesCurrentSubscribers ==
  [][/\ \A i \in DOMAIN dispatches' :
          i > Len(dispatches)
          => /\ dispatches'[i].lst
                  = SubscribedUnder(listeners, dispatches'[i].event.event_type)
             /\ \A l \in ListenerIds :
                  l \notin Range(SubscribedUnder(listeners, dispatches'[i].event.event_type))
                  => l \notin Range(dispatches'[i].lst)
     /\ \A i \in DOMAIN dispatches :
          /\ dispatches'[i].lst = dispatches[i].lst
          /\ \A p \in DOMAIN dispatches[i].st :
               dispatches[i].st[p] # "pending" => dispatches'[i].st[p] # "pending"
     /\ (ret'.op = "unsubscribe" /\ ret'.raised = None /\ ret'.arg[1] \in DOMAIN listeners)
        => /\ Count(SubscribedUnder(listeners', ret'.arg[1]), ret'.arg[2])
                = Count(SubscribedUnder(listeners, ret'.arg[1]), ret'.arg[2]) - 1
           /\ \A t \in EventTypes \ {ret'.arg[1]} :
                SubscribedUnder(listeners', t) = SubscribedUnder(listeners, t)
     /\ dispatches' # dispatches => listeners' = listeners]_vars

C27_Witness ==
  /\ Len(dispatches) = 2
  /\ dispatches[1].event.event_type = "StateChangeEvent"
  /\ dispatches[2].event.event_type = "StateChangeEvent"
  /\ dispatches[1].lst = <<"ok">>
  /\ dispatches[2].lst = <<>>
  /\ SubscribedUnder(listeners, "ToolExecutionEvent") = <<"ok">>
  /\ ret.op = "none"

\* the tasks a dispatch step has added
NewTasks == {i \in DOMAIN session'.tasks : i > Len(session.tasks)}

DispatchSchedules ==
  ret'.op = "session.dispatch"
  => LET event == [class |-> ret'.arg, id |-> session.dispatched + 1]
         ls == IF event.class \in DOMAIN session.listeners
               THEN session.listeners[event.class] ELSE <<>>
     IN /\ session'.returned = <<event>>
        /\ Cardinality(NewTasks) = Len(ls)
        /\ \A i \in NewTasks :
             /\ session'.tasks[i].listener = ls[i - Len(session.tasks)]
             /\ session'.tasks[i].event = event
             /\ session'.tasks[i].status = "scheduled"
        /\ \A i \in DOMAIN session.tasks : session'.tasks[i] = session.tasks[i]

\* C28: the bus of a BrowserSession dispatches without waiting: dispatch(event)
\* returns the event right after scheduling one task per listener registered
\* under the event's class name, none of which has run yet, and once the event
\* loop runs each such listener eventually receives that same event object.
C28_DispatchSchedulesAndReturns ==
  /\ [][DispatchSchedules]_vars
  /\ \A i \in 1..MaxTasks :
       (i \in DOMAIN session.tasks)
       ~> (/\ i \in DOMAIN session.tasks
           /\ session.tasks[i].status = "done"
           /\ session.tasks[i].received = <<session.tasks[i].event>>)

C28_Witness ==
  /\ Len(session.tasks) = 3
  /\ session.tasks[1].status = "done"
  /\ session.tasks[1].received = <<[class |-> "TestEvent", id |-> 1]>>
  /\ session.tasks[2].listener = "l2"
  /\ session.tasks[3].status = "scheduled"
  /\ session.tasks[3].event.id = 2

\* C29: the tool is invoked with exactly the positional and keyword arguments
\* the caller passed: no entry of sandbox_config reaches the tool and no caller
\* keyword argument is withheld from it.
C29_ToolGetsCallerArguments ==
  [][(ret'.op = "execute" /\ Len(runs') > Len(runs))
     => /\ Last(runs').func_args = <<"v1">>
        /\ DOMAIN Last(runs').func_kwargs = DOMAIN ret'.arg[3]
        /\ \A k \in DOMAIN ret'.arg[3] : Last(runs').func_kwargs[k] = ret'.arg[3][k]]_vars

\* what a step may do to the paused flag, and what a run call does on a
\* paused agent
PausedFlagSteps ==
  /\ ret'.op = "pause" => (paused' /\ trace' = trace /\ loop'.pc = loop.pc)
  /\ ret'.op = "resume" => (~paused' /\ trace' = trace /\ loop' = loop)
  /\ ret'.op \notin {"pause", "resume"} => paused' = paused
  /\ loop'.n > loop.n => (loop'.step = 0 /\ trace' = <<>> /\ loop'.pc = "top")
  /\ (loop.pc = "top" /\ loop.step = 0 /\ paused)
     => (loop'.pc = "returned" /\ trace' = <<>> /\ paused')

\* C30: run never writes the paused flag: pause() sets it, only resume()
\* clears it, and each has the same effect whatever the flag was; a run call
\* issued while the agent is paused invokes no hook and no step body and
\* returns at its first loop check with the agent still paused; every run call
\* starts at step 0 with nothing invoked, and a run(max_steps=N) on an agent
\* that is not paused during it, the first or a later one, executes N steps.
C30_OnlyResumeClearsPause ==
  /\ [][PausedFlagSteps]_vars
  /\ [](( /\ loop.pc = "returned"
          /\ ~loop.pausedSeen
          /\ loop.max_steps # Unbounded)
        => /\ loop.step = loop.max_steps[1]
           /\ Count(trace, "body") = loop.max_steps[1])

C30_Witness ==
  /\ loop.n = 2
  /\ loop.pc = "returned"
  /\ paused
  /\ ret.op = "none"
  /\ loop.max_steps = <<3>>
  /\ loop.on_step_start
  /\ loop.step = 0
  /\ trace = <<>>

\* a listener failed while the result event of call c was being dispatched
ListenerFailedOnResult(c) ==
  /\ calls[c].tool = "return"
  /\ calls[c].events # <<>>
  /\ \E p \in DOMAIN FirstDispatch(c).st : FirstDispatch(c).st[p] = "failed"

\* C31: if a listener fails while the event of a successful tool call is being
\* dispatched, execute_tool never returns the tool's result: it ends by
\* raising the listener's error, and the tool has been invoked once only.
C31_ListenerFailureReplacesResult ==
  \A c \in DOMAIN calls :
    ListenerFailedOnResult(c)
    => /\ calls[c].status # "returned"
       /\ calls[c].status = "raised" => calls[c].value = ListenerError
       /\ calls[c].invoked = 1
       /\ FirstDispatch(c).event.result = CallTool(Lookup(tools, calls[c].name), calls[c].arg).value

C31_Witness ==
  \E c \in DOMAIN calls :
    /\ calls[c].name = "echo"
    /\ calls[c].tool = "return"
    /\ calls[c].status = "raised"
    /\ calls[c].value = ListenerError
    /\ FirstDispatch(c).lst = <<"ok", "raiser">>
    /\ FirstDispatch(c).st = <<"done", "failed">>
    /\ FirstDispatch(c).event.result = "v1"

\* a hook raises in this step
HookRaises == loop'.pc = "raised" /\ loop.pc # "raised"

RunStopsAtFailure ==
  /\ HookRaises
     => /\ loop.pc \in {"in_start", "in_end"}
        /\ paused' = paused
        /\ loop'.step = loop.step
        /\ trace' = Append(trace, IF loop.pc = "in_start" THEN "start_raise" ELSE "end_raise")
  /\ (loop.pc = "raised" /\ loop'.n = loop.n)
     => (loop'.pc = "raised" /\ trace' = trace /\ loop'.step = loop.step)

\* C32: when on_step_start or on_step_end raises during a step, run stops at
\* that point with the error: the remaining phases of that step are not
\* executed (no step body and no on_step_end after a failing on_step_start),
\* no further step starts, and the raising step leaves the paused flag as it
\* was. (The shipped step body is empty and cannot raise.)
C32_HookFailureStopsRun ==
  /\ [][RunStopsAtFailure]_vars
  /\ [](loop.pc = "raised"
        => /\ Last(trace) \in {"start_raise", "end_raise"}
           /\ Count(trace, "start_raise") + Count(trace, "end_raise") = 1
           /\ Last(trace) = "start_raise"
              => /\ Count(trace, "body") = loop.step
                 /\ Count(trace, "end") = IF loop.on_step_end THEN loop.step ELSE 0
           /\ Last(trace) = "end_raise"
              => /\ Count(trace, "body") = loop.step + 1
                 /\ Count(trace, "end") = loop.step + 1)

C32_Witness ==
  /\ loop.pc = "raised"
  /\ loop.step = 1
  /\ loop.max_steps = <<3>>
  /\ trace = <<"start", "start_ret", "body", "end", "end_ret", "start", "start_raise">>

\* the set call awaiting dispatch j raises to its caller in this step
SetRaises(j) ==
  /\ dispatches[j].origin.op = "set"
  /\ ~dispatches[j].resumed
  /\ dispatches'[j].resumed
  /\ dispatches[j].out = "raised"

\* a listener of dispatch i fails in this step
ListenerFails(i) ==
  \E p \in DOMAIN dispatches[i].st :
    dispatches[i].st[p] = "pending" /\ dispatches'[i].st[p] = "failed"

\* C33 as claimed: when set(key, v) raises because a listener failed, the keyed
\* map holds v under key and the StateChangeEvent is in history.
C33_MapHoldsValueWhenSetRaises ==
  [][\A j \in DOMAIN dispatches :
       SetRaises(j)
       => /\ StateGet(state', dispatches[j].event.key) = dispatches[j].event.new_value
          /\ history'[j] = dispatches[j].event]_vars

\* C33 amended: when a listener fails during set(key, v), set raises the
\* listener's error to its caller and rolls nothing back: neither the failing
\* listener nor the raising of set changes the keyed map or the history, and
\* the StateChangeEvent remains in history (so the map still holds v under key
\* unless another set, delete or load_dict on that key ran in between).
C33_NothingRolledBack ==
  [][\A j \in DOMAIN dispatches :
       IsStateEvent(dispatches[j].event)
       => /\ ListenerFails(j)
             => /\ state' = state
                /\ history' = history
                /\ dispatches'[j].out = "raised"
          /\ SetRaises(j)
             => /\ dispatches[j].exc = ListenerError
                /\ state' = state
                /\ history' = history
                /\ history[j] = dispatches[j].event]_vars

C33_Witness ==
  /\ Len(dispatches) = 1
  /\ dispatches[1].event = StateChangeEvent("k1", None, "v1")
  /\ dispatches[1].st = <<"failed">>
  /\ dispatches[1].out = "raised"
  /\ dispatches[1].resumed
  /\ StateGet(state, "k1") = "v1"
  /\ history = <<StateChangeEvent("k1", None, "v1")>>

\* the run call in progress or just ended was given a ceiling of zero or less
NoStepsAllowed == loop.max_steps # Unbounded /\ loop.max_steps[1] <= 0

\* C34: run(max_steps=N) with N <= 0 executes no step and no hook and returns
\* at its first loop check, also for a negative N: the guard step < max_steps
\* is false at step 0, so the loop is never entered.
C34_NonPositiveCeilingRunsNothing ==
  /\ [](NoStepsAllowed
        => /\ trace = <<>>
           /\ loop.step = 0
           /\ loop.pc \in {"top", "returned"})
  /\ [][(NoStepsAllowed /\ loop.pc = "top") => loop'.pc = "returned"]_vars

C34_Witness ==
  /\ loop.pc = "returned"
  /\ loop.max_steps = <<0 - 1>>
  /\ loop.on_step_start
  /\ loop.on_step_end
  /\ ~paused
  /\ ~loop.pausedSeen
  /\ trace = <<>>

\* the sequence without its entries equal to x
Others(seq, x) == SelectSeq(seq, LAMBDA y : y # x)

UnsubscribeEffect ==
  ret'.op = "unsubscribe"
  => LET t == ret'.arg[1]
         l == ret'.arg[2]
     IN /\ t \notin DOMAIN listeners
           => (ret'.raised = None /\ listeners' = listeners)
        /\ (t \in DOMAIN listeners /\ Count(listeners[t], l) = 0)
           => (ret'.raised = ValueError /\ listeners' = listeners)
        /\ (t \in DOMAIN listeners /\ Count(listeners[t], l) > 0)
           => /\ ret'.raised = None
              /\ Count(listeners'[t], l) = Count(listeners[t], l) - 1
              /\ Others(listeners'[t], l) = Others(listeners[t], l)
              /\ \A u \in DOMAIN listeners \ {t} : listeners'[u] = listeners[u]
              /\ DOMAIN listeners' = DOMAIN listeners

\* C35: unsubscribe(event_type, listener) removes exactly one subscription of
\* the listener and keeps the rest, and a dispatch invokes a listener as many
\* times as it is subscribed (k times, k-1 after one unsubscribe); it is a
\* silent no-op when event_type has no listener list, and raises, leaving the
\* subscriptions unchanged, when the list exists without the listener.
C35_UnsubscribeRemovesOneSubscription ==
  [][/\ UnsubscribeEffect
     /\ \A i \in DOMAIN dispatches' :
          i > Len(dispatches)
          => \A l \in ListenerIds :
               Count(dispatches'[i].lst, l)
                 = Count(SubscribedUnder(listeners, dispatches'[i].event.event_type), l)]_vars

C35_Witness ==
  /\ Len(dispatches) = 2
  /\ dispatches[1].lst = <<"ok", "ok">>
  /\ dispatches[2].lst = <<"ok">>
  /\ dispatches[2].event.event_type = dispatches[1].event.event_type
  /\ SubscribedUnder(listeners, "StateChangeEvent") = <<"ok">>
  /\ ret.op = "unsubscribe"
  /\ ret.arg = <<"StateChangeEvent", "raiser">>
  /\ ret.raised = ValueError

====
